---- MODULE Spec2Model ----
(***************************************************************************)
(* Heart Disease Prediction App (02.streamlit_app_new.py).                 *)
(*                                                                         *)
(* The script is re-run from the top on every user interaction.  The model *)
(* has one action per kind of interaction, each being one whole run of     *)
(* main(): load_model() through the resource cache, the manual form of     *)
(* tab 1 and the CSV upload of tab 2.                                      *)
(*                                                                         *)
(* Conventions.                                                            *)
(*   - A Python string is a string; Chars spells the ones the code tests   *)
(*     with "in", so that the test is a real substring test.               *)
(*   - A Python scalar that the code compares or stores in a DataFrame is  *)
(*     a record [ty, i, s] (PyInt, PyStr): 1 and "Presence" can then be    *)
(*     compared as Python compares them.                                   *)
(*   - A DataFrame is [cols |-> sequence of names, rows |-> sequence of    *)
(*     rows], a row being a sequence of cells aligned with cols.           *)
(*   - A float with step 0.1 (ST depression) is counted in tenths; a       *)
(*     probability is counted in ten-thousandths.                          *)
(***************************************************************************)
EXTENDS Integers, Sequences, FiniteSets, TLC

VARIABLES
    form,           \* the 13 widget values of the patient form
    input_df,       \* the encoder's output of the last run (None if none)
    probe,          \* one pure function applied on its own: input and result
    fs,             \* the candidate paths that exist on the filesystem
    artifact,       \* what the artifact on disk deserializes to
    cache,          \* st.cache_resource's slot for load_model
    loads,          \* number of joblib.load calls so far
    resolves,       \* number of resolve_model_path calls so far
    uploaded_file,  \* the file_uploader's current value (None if none)
    model,          \* main()'s local `model` in the last run
    ui,             \* elements rendered by the last run, in order
    calls,          \* inference calls made by the last run, in order
    df,             \* main()'s local `df` at the end of the last run
    download,       \* what the last run's download button offers (None if none)
    crashed         \* an exception escaped main() in the last run

vars == <<form, input_df, probe, fs, artifact, cache, loads, resolves,
          uploaded_file, model, ui, calls, df, download, crashed>>

----------------------------------------------------------------------------
(* Python values *)

None == [none |-> TRUE]

PyInt(n) == [ty |-> "int", i |-> n, s |-> ""]

PyStr(str) == [ty |-> "str", i |-> 0, s |-> str]

\* Python's ==: an int never equals a str.
PyEq(a, b) == a.ty = b.ty /\ a.i = b.i /\ a.s = b.s

\* Mutant of DictGet: d.get(k, 0), a lookup with a default.
DictGet_default(d, k) ==
    IF k \in DOMAIN d THEN [exc |-> "", v |-> d[k]]
    ELSE [exc |-> "", v |-> 0]

\* d[k] on a dict: the value, or KeyError.
DictGet(d, k) ==
    IF k \in DOMAIN d THEN [exc |-> "", v |-> d[k]]
    ELSE [exc |-> "KeyError", v |-> 0]

----------------------------------------------------------------------------
(* Strings *)

\* The characters of a string, for the strings that occur as labels or as
\* literals of the code.
Chars(s) ==
    CASE s = "Male" -> <<"M", "a", "l", "e">>
      [] s = "Female" -> <<"F", "e", "m", "a", "l", "e">>
      [] s = "Typical Angina (1)" -> <<"T", "y", "p", "i", "c", "a", "l", " ", "A", "n", "g", "i", "n", "a", " ", "(", "1", ")">>
      [] s = "Atypical Angina (2)" -> <<"A", "t", "y", "p", "i", "c", "a", "l", " ", "A", "n", "g", "i", "n", "a", " ", "(", "2", ")">>
      [] s = "Non-Anginal Pain (3)" -> <<"N", "o", "n", "-", "A", "n", "g", "i", "n", "a", "l", " ", "P", "a", "i", "n", " ", "(", "3", ")">>
      [] s = "Asymptomatic (4)" -> <<"A", "s", "y", "m", "p", "t", "o", "m", "a", "t", "i", "c", " ", "(", "4", ")">>
      [] s = "False (0)" -> <<"F", "a", "l", "s", "e", " ", "(", "0", ")">>
      [] s = "True (1)" -> <<"T", "r", "u", "e", " ", "(", "1", ")">>
      [] s = "Normal (0)" -> <<"N", "o", "r", "m", "a", "l", " ", "(", "0", ")">>
      [] s = "ST-T Abnormality (1)" -> <<"S", "T", "-", "T", " ", "A", "b", "n", "o", "r", "m", "a", "l", "i", "t", "y", " ", "(", "1", ")">>
      [] s = "LV Hypertrophy (2)" -> <<"L", "V", " ", "H", "y", "p", "e", "r", "t", "r", "o", "p", "h", "y", " ", "(", "2", ")">>
      [] s = "No (0)" -> <<"N", "o", " ", "(", "0", ")">>
      [] s = "Yes (1)" -> <<"Y", "e", "s", " ", "(", "1", ")">>
      [] s = "Upsloping (1)" -> <<"U", "p", "s", "l", "o", "p", "i", "n", "g", " ", "(", "1", ")">>
      [] s = "Flat (2)" -> <<"F", "l", "a", "t", " ", "(", "2", ")">>
      [] s = "Downsloping (3)" -> <<"D", "o", "w", "n", "s", "l", "o", "p", "i", "n", "g", " ", "(", "3", ")">>
      [] s = "Normal (3)" -> <<"N", "o", "r", "m", "a", "l", " ", "(", "3", ")">>
      [] s = "Fixed Defect (6)" -> <<"F", "i", "x", "e", "d", " ", "D", "e", "f", "e", "c", "t", " ", "(", "6", ")">>
      [] s = "Reversible Defect (7)" -> <<"R", "e", "v", "e", "r", "s", "i", "b", "l", "e", " ", "D", "e", "f", "e", "c", "t", " ", "(", "7", ")">>
      [] s = "True" -> <<"T", "r", "u", "e">>
      [] s = "Yes" -> <<"Y", "e", "s">>
      [] s = "male" -> <<"m", "a", "l", "e">>
      [] s = "Not True" -> <<"N", "o", "t", " ", "T", "r", "u", "e">>
      [] s = "Yes, severe" -> <<"Y", "e", "s", ",", " ", "s", "e", "v", "e", "r", "e">>
      [] s = "Unknown" -> <<"U", "n", "k", "n", "o", "w", "n">>
      [] s = "" -> <<>>

\* Python's `sub in s` on strings.
StrIn(sub, s) ==
    LET a == Chars(sub)
        b == Chars(s)
    IN  \E k \in 0..(Len(b) - Len(a)) : \A j \in 1..Len(a) : b[k + j] = a[j]

\* The option lists handed to st.selectbox.
SexOptions == {"Male", "Female"}
CpOptions == {"Typical Angina (1)", "Atypical Angina (2)", "Non-Anginal Pain (3)", "Asymptomatic (4)"}
FbsOptions == {"False (0)", "True (1)"}
EcgOptions == {"Normal (0)", "ST-T Abnormality (1)", "LV Hypertrophy (2)"}
ExangOptions == {"No (0)", "Yes (1)"}
SlopeOptions == {"Upsloping (1)", "Flat (2)", "Downsloping (3)"}
CaOptions == {0, 1, 2, 3}
ThalOptions == {"Normal (3)", "Fixed Defect (6)", "Reversible Defect (7)"}

\* The (min, max, default) of the st.number_input widgets.
AgeMin == 10
AgeMax == 100
AgeDefault == 50
BpMin == 90
BpMax == 200
BpDefault == 120
CholMin == 100
CholMax == 600
CholDefault == 200
HrMin == 60
HrMax == 220
HrDefault == 150
OldpeakMin == 0
OldpeakMax == 100
OldpeakDefault == 0

----------------------------------------------------------------------------
(* Manual Input Encoder, lines 57-126 *)

\* Mutant of sex_val: the two codes exchanged.
sex_val_inverted(sex_disp) == IF sex_disp = "Male" THEN 0 ELSE 1

sex_val(sex_disp) == IF sex_disp = "Male" THEN 1 ELSE 0

cp_map ==
    ("Typical Angina (1)" :> 1) @@ ("Atypical Angina (2)" :> 2) @@
    ("Non-Anginal Pain (3)" :> 3) @@ ("Asymptomatic (4)" :> 4)

fbs_val(fbs_disp) == IF StrIn("True", fbs_disp) THEN 1 ELSE 0

ecg_map == ("Normal (0)" :> 0) @@ ("ST-T Abnormality (1)" :> 1) @@ ("LV Hypertrophy (2)" :> 2)

exang_val(exang_disp) == IF StrIn("Yes", exang_disp) THEN 1 ELSE 0

slope_map == ("Upsloping (1)" :> 1) @@ ("Flat (2)" :> 2) @@ ("Downsloping (3)" :> 3)

thal_map == ("Normal (3)" :> 3) @@ ("Fixed Defect (6)" :> 6) @@ ("Reversible Defect (7)" :> 7)

\* One categorical mapping as the code applies it: the code, or KeyError.
ApplyMapping(field, label) ==
    CASE field = "Sex" -> [exc |-> "", v |-> sex_val(label)]
      [] field = "Chest pain type" -> DictGet(cp_map, label)
      [] field = "FBS over 120" -> [exc |-> "", v |-> fbs_val(label)]
      [] field = "EKG results" -> DictGet(ecg_map, label)
      [] field = "Exercise angina" -> [exc |-> "", v |-> exang_val(label)]
      [] field = "Slope of ST" -> DictGet(slope_map, label)
      [] field = "Thallium" -> DictGet(thal_map, label)

\* The keys of input_data, in insertion order (lines 110-124).
InputColumns ==
    <<"Age", "Sex", "Chest pain type", "BP", "Cholesterol", "FBS over 120",
      "EKG results", "Max HR", "Exercise angina", "ST depression",
      "Slope of ST", "Number of vessels fluro", "Thallium">>

\* input_df of lines 57-126: exc is "KeyError" when a dict lookup fails
\* (lines 69, 83, 97, 104 are outside every try block).
EncodeForm(f) ==
    LET cp == ApplyMapping("Chest pain type", f.cp_disp)
        ecg == ApplyMapping("EKG results", f.ecg_disp)
        slope == ApplyMapping("Slope of ST", f.slope_disp)
        thal == ApplyMapping("Thallium", f.thal_disp)
    IN  IF cp.exc # "" \/ ecg.exc # "" \/ slope.exc # "" \/ thal.exc # ""
        THEN [exc |-> "KeyError", value |-> None]
        ELSE [exc |-> "",
              value |->
                [cols |-> InputColumns,
                 rows |-> << <<PyInt(f.age),
                               PyInt(ApplyMapping("Sex", f.sex_disp).v),
                               PyInt(cp.v),
                               PyInt(f.trestbps),
                               PyInt(f.chol),
                               PyInt(ApplyMapping("FBS over 120", f.fbs_disp).v),
                               PyInt(ecg.v),
                               PyInt(f.thalach),
                               PyInt(ApplyMapping("Exercise angina", f.exang_disp).v),
                               PyInt(f.oldpeak),
                               PyInt(slope.v),
                               PyInt(f.ca),
                               PyInt(thal.v)>> >>]]

\* The form as Streamlit first renders it: number inputs at their default,
\* selectboxes at their first option.
DefaultForm ==
    [age |-> AgeDefault, sex_disp |-> "Male", cp_disp |-> "Typical Angina (1)",
     trestbps |-> BpDefault, chol |-> CholDefault, fbs_disp |-> "False (0)",
     ecg_disp |-> "Normal (0)", thalach |-> HrDefault, exang_disp |-> "No (0)",
     oldpeak |-> OldpeakDefault, slope_disp |-> "Upsloping (1)", ca |-> 0,
     thal_disp |-> "Normal (3)"]

----------------------------------------------------------------------------
(* Model Artifact Resolver, lines 16-26 *)

model_filename == "best_model.pkl"

\* Mutant of possible_paths: src/ searched before models/.
possible_paths_src_first(filename) ==
    << <<"src", filename>>, <<"models", filename>>, <<filename>>,
       <<"..", "models", filename>> >>

\* A path is the tuple of its components (os.path.join).
possible_paths(filename) ==
    << <<"models", filename>>, <<"src", filename>>, <<filename>>,
       <<"..", "models", filename>> >>

\* The loop of lines 23-26 from index k on; `exists` is os.path.exists.
RECURSIVE FirstExisting(_, _, _)
FirstExisting(paths, k, exists) ==
    IF k > Len(paths) THEN None
    ELSE IF paths[k] \in exists THEN [path |-> paths[k]]
    ELSE FirstExisting(paths, k + 1, exists)

resolve_model_path(filename, exists) ==
    FirstExisting(possible_paths(filename), 1, exists)

----------------------------------------------------------------------------
(* Model Loader, lines 28-38 *)

\* What joblib.load makes of the artifact: an exception, or a new predictor
\* object (n numbers the objects created).  hasProba: the object has a
\* predict_proba attribute.
joblib_load(path, art, n) ==
    IF art.corrupt THEN [exc |-> "UnpicklingError", value |-> None]
    ELSE [exc |-> "",
          value |-> [id |-> n, path |-> path, hasProba |-> art.hasProba]]

Element(tag, cause, num) == [tag |-> tag, cause |-> cause, num |-> num]

\* Mutant of load_model_body: the except branch returns None without
\* reporting the exception.
load_model_body_silent(exists, art, n) ==
    LET model_path == resolve_model_path(model_filename, exists)
    IN  IF model_path # None
        THEN [value |-> joblib_load(model_path.path, art, n).value,
              msgs |-> <<>>, loaded |-> TRUE]
        ELSE [value |-> None, msgs |-> <<>>, loaded |-> FALSE]

\* The body of load_model: the value it returns, the elements it renders,
\* and whether it called joblib.load.
load_model_body(exists, art, n) ==
    LET model_path == resolve_model_path(model_filename, exists)
    IN  IF model_path # None
        THEN LET r == joblib_load(model_path.path, art, n)
             IN  IF r.exc = ""
                 THEN [value |-> r.value, msgs |-> <<>>, loaded |-> TRUE]
                 ELSE [value |-> None,
                       msgs |-> <<Element("error: Error loading model", r.exc, 0)>>,
                       loaded |-> TRUE]
        ELSE [value |-> None, msgs |-> <<>>, loaded |-> FALSE]

\* @st.cache_resource on a function without arguments: one slot, written
\* with whatever the first completed call returned (None included) and the
\* elements it rendered, which a later hit replays.
EmptyCache == [filled |-> FALSE, value |-> None, msgs |-> <<>>]

\* Mutant of CacheWrite: the result is not stored.
CacheWrite_dropped(c, r) == c

CacheWrite(c, r) == [filled |-> TRUE, value |-> r.value, msgs |-> r.msgs]

\* load_model() as main() calls it: [value, msgs, cache, loads, resolves].
load_model(c, exists, art, nl, nr) ==
    IF c.filled
    THEN [value |-> c.value, msgs |-> c.msgs, cache |-> c,
          loads |-> nl, resolves |-> nr]
    ELSE LET r == load_model_body(exists, art, nl + 1)
         IN  [value |-> r.value, msgs |-> r.msgs, cache |-> CacheWrite(c, r),
              loads |-> IF r.loaded THEN nl + 1 ELSE nl,
              resolves |-> nr + 1]

----------------------------------------------------------------------------
(* DataFrames *)

ColumnSet(d) == {d.cols[k] : k \in 1..Len(d.cols)}

ColumnIndex(d, name) == CHOOSE k \in 1..Len(d.cols) : d.cols[k] = name

\* The cells of column `name`, top to bottom.
Column(d, name) == [r \in 1..Len(d.rows) |-> d.rows[r][ColumnIndex(d, name)]]

\* df[name] = values: an existing column of that name is overwritten in
\* place, otherwise the column is appended on the right.
SetColumn(d, name, values) ==
    IF name \in ColumnSet(d)
    THEN [cols |-> d.cols,
          rows |-> [r \in 1..Len(d.rows) |->
                      [d.rows[r] EXCEPT ![ColumnIndex(d, name)] = values[r]]]]
    ELSE [cols |-> Append(d.cols, name),
          rows |-> [r \in 1..Len(d.rows) |-> Append(d.rows[r], values[r])]]

\* df.to_csv(index=False): the header line, then one line per row, without
\* an index column.
to_csv(d) == <<d.cols>> \o d.rows

----------------------------------------------------------------------------
(* The predictor object.  It is an opaque pickle: what its methods return  *)
(* is not decided by this program, so every outcome is possible.           *)

MaxRows == 1

\* Class labels a predictor may return.
PredValues == {PyInt(0), PyInt(1), PyStr("Presence")}

\* predict_proba's per-row vectors [P(class 0), P(class 1)].
ProbaVectors == {<<10000, 0>>, <<2488, 7512>>}

\* Outcomes of m.predict(d): it raises (columns or values it does not
\* accept), or returns one label per row.
PredictOutcomes(m, d) ==
    {[exc |-> "ValueError", v |-> <<>>]} \cup
    {[exc |-> "", v |-> v] : v \in [1..Len(d.rows) -> PredValues]}

\* Outcomes of m.predict_proba(d).
ProbaOutcomes(m, d) ==
    {[exc |-> "ValueError", v |-> <<>>]} \cup
    {[exc |-> "", v |-> v] : v \in [1..Len(d.rows) -> ProbaVectors]}

\* One inference call: the method, the columns of the dataset it was given,
\* the exception it raised ("" if none) and what it returned.
Call(fn, d, o) == [fn |-> fn, cols |-> d.cols, exc |-> o.exc, v |-> o.v]

----------------------------------------------------------------------------
(* Tab 1, lines 52-146 *)

\* f"%{proba*100:.1f}": percent with one decimal, as the number of tenths
\* of a percent (ties do not occur among ProbaVectors).
FormatRisk(proba) == (proba + 5) \div 10

\* Line 140.
IsPositive(prediction) ==
    PyEq(prediction, PyInt(1)) \/ PyEq(prediction, PyStr("Presence"))

\* Mutant of ProbaOf: entry 0 of the vector is taken.
ProbaOf_class0(m, d) ==
    IF m.hasProba
    THEN {[exc |-> o.exc, calls |-> <<Call("predict_proba", d, o)>>,
           proba |-> IF o.exc = "" THEN o.v[1][1] ELSE 0] :
          o \in ProbaOutcomes(m, d)}
    ELSE {[exc |-> "", calls |-> <<>>, proba |-> 0]}

\* Line 134 once predict has returned: the outcomes of the conditional
\* expression, the call it makes (if any) and the value of proba.
ProbaOf(m, d) ==
    IF m.hasProba
    THEN {[exc |-> o.exc, calls |-> <<Call("predict_proba", d, o)>>,
           proba |-> IF o.exc = "" THEN o.v[1][2] ELSE 0] :
          o \in ProbaOutcomes(m, d)}
    ELSE {[exc |-> "", calls |-> <<>>, proba |-> 0]}

\* Mutant of ManualResult: the risk score is drawn before line 134 is
\* evaluated, so it stays on the page when predict_proba raises.
ManualResult_partial(d, po, pr) ==
    IF po.exc # ""
    THEN [ui |-> <<Element("error: Prediction Error", po.exc, 0)>>,
          calls |-> <<Call("predict", d, po)>>]
    ELSE [ui |-> <<Element("divider", "", 0),
                   Element("metric: Risk Score", "", FormatRisk(pr.proba))>> \o
                 (IF pr.exc # ""
                  THEN <<Element("error: Prediction Error", pr.exc, 0)>>
                  ELSE IF IsPositive(po.v[1])
                  THEN <<Element("error: HEART DISEASE DETECTED", "", 0)>>
                  ELSE <<Element("success: NORMAL", "", 0)>>),
          calls |-> <<Call("predict", d, po)>> \o pr.calls]

\* Lines 132-146 for one outcome of predict and one of line 134.
ManualResult(d, po, pr) ==
    IF po.exc # ""
    THEN [ui |-> <<Element("error: Prediction Error", po.exc, 0)>>,
          calls |-> <<Call("predict", d, po)>>]
    ELSE IF pr.exc # ""
    THEN [ui |-> <<Element("error: Prediction Error", pr.exc, 0)>>,
          calls |-> <<Call("predict", d, po)>> \o pr.calls]
    ELSE [ui |-> <<Element("divider", "", 0),
                   Element("metric: Risk Score", "", FormatRisk(pr.proba)),
                   IF IsPositive(po.v[1])
                   THEN Element("error: HEART DISEASE DETECTED", "", 0)
                   ELSE Element("success: NORMAL", "", 0)>>,
          calls |-> <<Call("predict", d, po)>> \o pr.calls]

\* What tab 1 can do in one run: [ui, input_df, calls, crashed].
Tab1(m, f, submitted) ==
    LET enc == EncodeForm(f)
        head == <<Element("form", "", 0)>>
    IN  IF enc.exc # ""
        THEN {[ui |-> <<>>, input_df |-> None, calls |-> <<>>, crashed |-> TRUE]}
        ELSE IF ~submitted
        THEN {[ui |-> head, input_df |-> None, calls |-> <<>>, crashed |-> FALSE]}
        ELSE {[ui |-> head \o r.ui, input_df |-> enc.value, calls |-> r.calls,
               crashed |-> FALSE] :
              r \in {ManualResult(enc.value, po, pr) :
                       po \in PredictOutcomes(m, enc.value),
                       pr \in ProbaOf(m, enc.value)}}

----------------------------------------------------------------------------
(* Tab 2, lines 149-177 *)

\* pd.read_csv(uploaded_file): an exception, or the file's table.
read_csv(file) ==
    IF file.readable THEN [exc |-> "", value |-> file.table]
    ELSE [exc |-> "ParserError", value |-> None]

\* Lines 160-174 on df = d0 for one outcome po of line 161.
BatchResults(m, d0, po) ==
    LET failed(d, cs, e) ==
            [ui |-> <<Element("error: Error", e, 0),
                      Element("info: Ensure CSV columns match", "", 0)>>,
             calls |-> cs, df |-> d, download |-> None]
        done(d, cs) ==
            [ui |-> <<Element("success: Analysis Completed!", "", 0),
                      Element("dataframe", "", 0),
                      Element("download_button", "", 0)>>,
             calls |-> cs, df |-> d,
             download |-> [file_name |-> "predictions.csv", mime |-> "text/csv",
                           data |-> to_csv(d)]]
        c1 == <<Call("predict", d0, po)>>
    IN  IF po.exc # "" THEN {failed(d0, c1, po.exc)}
        ELSE LET d1 == SetColumn(d0, "Prediction", po.v)
             IN  IF ~m.hasProba THEN {done(d1, c1)}
                 ELSE {IF pr.exc # ""
                       THEN failed(d1, Append(c1, Call("predict_proba", d1, pr)),
                                   pr.exc)
                       ELSE done(SetColumn(d1, "Probability",
                                           [r \in 1..Len(d1.rows) |->
                                              PyInt(pr.v[r][2])]),
                                 Append(c1, Call("predict_proba", d1, pr))) :
                       pr \in ProbaOutcomes(m, d1)}

\* What tab 2 can do in one run: [ui, calls, df, download].
Tab2(m, file, clicked) ==
    LET head == <<Element("file_uploader", "", 0)>>
        nothing == [ui |-> head, calls |-> <<>>, df |-> None, download |-> None]
    IN  IF file = None THEN {nothing}
        ELSE LET rd == read_csv(file)
                 preview == <<Element("dataframe", "", 0),
                              Element("button: Start Batch Analysis", "", 0)>>
             IN  IF rd.exc # ""
                 THEN {[nothing EXCEPT
                          !.ui = head \o <<Element("error: Could not read file.", "", 0)>>]}
                 ELSE IF ~clicked
                 THEN {[nothing EXCEPT !.ui = head \o preview, !.df = rd.value]}
                 ELSE {[r EXCEPT !.ui = head \o preview \o r.ui] :
                       r \in UNION {BatchResults(m, rd.value, po) :
                                      po \in PredictOutcomes(m, rd.value)}}

----------------------------------------------------------------------------
(* main(), lines 41-177: one run of the script *)

HasElement(elements, tag) == \E k \in 1..Len(elements) : elements[k].tag = tag

\* One run with the widget values form' and uploaded_file'; `submitted` and
\* `clicked` are what form_submit_button and button return in this run.
Main(submitted, clicked) ==
    LET lm == load_model(cache, fs, artifact, loads, resolves)
        title == <<Element("title", "", 0)>>
    IN  /\ cache' = lm.cache
        /\ loads' = lm.loads
        /\ resolves' = lm.resolves
        /\ model' = lm.value
        /\ IF lm.value = None
           THEN /\ ui' = title \o lm.msgs \o
                         <<Element("error: Model file not found!", "", 0)>>
                /\ input_df' = None
                /\ calls' = <<>>
                /\ df' = None
                /\ download' = None
                /\ crashed' = FALSE
           ELSE \E t1 \in Tab1(lm.value, form', submitted) :
                  IF t1.crashed
                  THEN /\ ui' = title \o lm.msgs \o t1.ui
                       /\ input_df' = None
                       /\ calls' = <<>>
                       /\ df' = None
                       /\ download' = None
                       /\ crashed' = TRUE
                  ELSE \E t2 \in Tab2(lm.value, uploaded_file', clicked) :
                         /\ ui' = title \o lm.msgs \o t1.ui \o t2.ui
                         /\ input_df' = t1.input_df
                         /\ calls' = t1.calls \o t2.calls
                         /\ df' = t2.df
                         /\ download' = t2.download
                         /\ crashed' = FALSE
        /\ UNCHANGED <<fs, artifact, probe>>

----------------------------------------------------------------------------
(* The user's interactions and the filesystem around the process *)

\* Forms the user submits in the application runs.
LastForm ==
    [age |-> AgeMax, sex_disp |-> "Female", cp_disp |-> "Asymptomatic (4)",
     trestbps |-> BpMax, chol |-> CholMax, fbs_disp |-> "True (1)",
     ecg_disp |-> "LV Hypertrophy (2)", thalach |-> HrMax, exang_disp |-> "Yes (1)",
     oldpeak |-> OldpeakMax, slope_disp |-> "Downsloping (3)", ca |-> 3,
     thal_disp |-> "Reversible Defect (7)"]

SampleForms == {DefaultForm, LastForm}

\* CSV files the user uploads: unreadable, or a table with one of these
\* headers and up to MaxRows rows.
Table(cols, n) ==
    [cols |-> cols,
     rows |-> [r \in 1..n |-> [c \in 1..Len(cols) |-> PyInt(100 * r + c)]]]

UploadHeaders ==
    {InputColumns,
     SubSeq(InputColumns, 1, Len(InputColumns) - 1),
     InputColumns \o <<"Prediction">>}

Uploads ==
    {[readable |-> FALSE, table |-> None]} \cup
    {[readable |-> TRUE, table |-> Table(h, n)] : h \in UploadHeaders, n \in 1..MaxRows}

Candidates == {possible_paths(model_filename)[k] : k \in 1..4}

ArtifactKinds ==
    {[corrupt |-> TRUE, hasProba |-> FALSE]} \cup
    {[corrupt |-> FALSE, hasProba |-> p] : p \in BOOLEAN}

\* The browser opens or refreshes the page.
PageLoad ==
    /\ UNCHANGED <<form, uploaded_file>>
    /\ Main(FALSE, FALSE)

\* The user fills in the form and presses Predict.
SubmitForm ==
    /\ HasElement(ui, "form")
    /\ form' \in SampleForms
    /\ UNCHANGED uploaded_file
    /\ Main(TRUE, FALSE)

\* The user picks a file in the uploader.
UploadFile ==
    /\ HasElement(ui, "file_uploader")
    /\ uploaded_file' \in Uploads
    /\ UNCHANGED form
    /\ Main(FALSE, FALSE)

\* The user removes the uploaded file.
RemoveFile ==
    /\ HasElement(ui, "file_uploader")
    /\ uploaded_file # None
    /\ uploaded_file' = None
    /\ UNCHANGED form
    /\ Main(FALSE, FALSE)

\* The user presses Start Batch Analysis.
ClickBatch ==
    /\ HasElement(ui, "button: Start Batch Analysis")
    /\ UNCHANGED <<form, uploaded_file>>
    /\ Main(FALSE, TRUE)

\* Somebody creates or deletes the artifact at one of the candidate paths.
CreateArtifact ==
    /\ \E p \in Candidates \ fs : fs' = fs \cup {p}
    /\ UNCHANGED <<form, input_df, probe, artifact, cache, loads, resolves,
                   uploaded_file, model, ui, calls, df, download, crashed>>

DeleteArtifact ==
    /\ \E p \in fs : fs' = fs \ {p}
    /\ UNCHANGED <<form, input_df, probe, artifact, cache, loads, resolves,
                   uploaded_file, model, ui, calls, df, download, crashed>>

NoProbe == [field |-> "", label |-> "", done |-> FALSE, exc |-> "", v |-> 0]

\* The process starts: nothing has run, the cache is empty.
AppAt(exists, art) ==
    /\ fs = exists
    /\ artifact = art
    /\ cache = EmptyCache
    /\ loads = 0
    /\ resolves = 0
    /\ uploaded_file = None
    /\ model = None
    /\ ui = <<>>
    /\ calls = <<>>
    /\ df = None
    /\ download = None
    /\ crashed = FALSE

Init ==
    /\ \E exists \in SUBSET Candidates, art \in ArtifactKinds : AppAt(exists, art)
    /\ form = DefaultForm
    /\ input_df = None
    /\ probe = NoProbe

Next ==
    \/ PageLoad
    \/ SubmitForm
    \/ UploadFile
    \/ RemoveFile
    \/ ClickBatch
    \/ CreateArtifact
    \/ DeleteArtifact

Spec == Init /\ [][Next]_vars

----------------------------------------------------------------------------
(* The encoder on its own: every form the widgets can hold *)

NumberChoices(lo, hi) == {lo, hi}

WidgetForms ==
    {DefaultForm} \cup
    [age : NumberChoices(AgeMin, AgeMax), sex_disp : SexOptions,
     cp_disp : CpOptions, trestbps : NumberChoices(BpMin, BpMax),
     chol : NumberChoices(CholMin, CholMax), fbs_disp : FbsOptions,
     ecg_disp : EcgOptions, thalach : NumberChoices(HrMin, HrMax),
     exang_disp : ExangOptions, oldpeak : NumberChoices(OldpeakMin, OldpeakMax),
     slope_disp : SlopeOptions, ca : CaOptions, thal_disp : ThalOptions]

NoArtifact == [corrupt |-> TRUE, hasProba |-> FALSE]

InitEnc ==
    /\ AppAt({}, NoArtifact)
    /\ form \in WidgetForms
    /\ input_df = None
    /\ probe = NoProbe

\* Lines 57-126 applied to the form.
Encode ==
    /\ input_df = None
    /\ ~crashed
    /\ LET enc == EncodeForm(form)
       IN  /\ input_df' = enc.value
           /\ crashed' = (enc.exc # "")
    /\ UNCHANGED <<form, probe, fs, artifact, cache, loads, resolves,
                   uploaded_file, model, ui, calls, df, download>>

NextEnc == Encode

SpecEnc == InitEnc /\ [][NextEnc]_vars

----------------------------------------------------------------------------
(* One categorical mapping on its own: any label, declared or not *)

MappedFields ==
    {"Sex", "Chest pain type", "FBS over 120", "EKG results",
     "Exercise angina", "Slope of ST", "Thallium"}

\* The labels the selectbox of a field offers.
Declared(field) ==
    CASE field = "Sex" -> SexOptions
      [] field = "Chest pain type" -> CpOptions
      [] field = "FBS over 120" -> FbsOptions
      [] field = "EKG results" -> EcgOptions
      [] field = "Exercise angina" -> ExangOptions
      [] field = "Slope of ST" -> SlopeOptions
      [] field = "Thallium" -> ThalOptions

ProbeLabels ==
    UNION {Declared(f) : f \in MappedFields} \cup
    {"True", "Yes", "male", "Not True", "Yes, severe", "Unknown", ""}

InitMap ==
    /\ AppAt({}, NoArtifact)
    /\ form = DefaultForm
    /\ input_df = None
    /\ probe \in {[NoProbe EXCEPT !.field = f, !.label = l] :
                    f \in MappedFields, l \in ProbeLabels}

ApplyProbe ==
    /\ ~probe.done
    /\ LET r == ApplyMapping(probe.field, probe.label)
       IN  probe' = [probe EXCEPT !.done = TRUE, !.exc = r.exc, !.v = r.v]
    /\ UNCHANGED <<form, input_df, fs, artifact, cache, loads, resolves,
                   uploaded_file, model, ui, calls, df, download, crashed>>

NextMap == ApplyProbe

SpecMap == InitMap /\ [][NextMap]_vars

----------------------------------------------------------------------------
(* The resolver on its own: any filename, any set of existing paths *)

Filenames == {model_filename, "model.pkl"}

InitResolve ==
    /\ AppAt({}, NoArtifact)
    /\ form = DefaultForm
    /\ input_df = None
    /\ \E name \in Filenames, exists \in SUBSET UNION
            {{possible_paths(n)[k] : k \in 1..4} : n \in Filenames} :
         probe = [filename |-> name, exists |-> exists, done |-> FALSE,
                  result |-> None]

Resolve ==
    /\ ~probe.done
    /\ probe' = [probe EXCEPT
                   !.done = TRUE,
                   !.result = resolve_model_path(probe.filename, probe.exists)]
    /\ UNCHANGED <<form, input_df, fs, artifact, cache, loads, resolves,
                   uploaded_file, model, ui, calls, df, download, crashed>>

NextResolve == Resolve

SpecResolve == InitResolve /\ [][NextResolve]_vars

----------------------------------------------------------------------------
(* Properties *)

ElementOf(elements, tag) ==
    elements[CHOOSE k \in 1..Len(elements) : elements[k].tag = tag]

\* The field names and codes as the data model documents them.
DocumentedFields ==
    <<"Age", "Sex", "Chest pain type", "BP", "Cholesterol", "FBS over 120",
      "EKG results", "Max HR", "Exercise angina", "ST depression",
      "Slope of ST", "Number of vessels fluro", "Thallium">>

DocumentedCode(field, label) ==
    LET sex == ("Male" :> 1) @@ ("Female" :> 0)
        cp == ("Typical Angina (1)" :> 1) @@ ("Atypical Angina (2)" :> 2) @@
              ("Non-Anginal Pain (3)" :> 3) @@ ("Asymptomatic (4)" :> 4)
        fbs == ("False (0)" :> 0) @@ ("True (1)" :> 1)
        ekg == ("Normal (0)" :> 0) @@ ("ST-T Abnormality (1)" :> 1) @@
               ("LV Hypertrophy (2)" :> 2)
        exang == ("No (0)" :> 0) @@ ("Yes (1)" :> 1)
        slope == ("Upsloping (1)" :> 1) @@ ("Flat (2)" :> 2) @@
                 ("Downsloping (3)" :> 3)
        thal == ("Normal (3)" :> 3) @@ ("Fixed Defect (6)" :> 6) @@
                ("Reversible Defect (7)" :> 7)
    IN  CASE field = "Sex" -> sex[label]
          [] field = "Chest pain type" -> cp[label]
          [] field = "FBS over 120" -> fbs[label]
          [] field = "EKG results" -> ekg[label]
          [] field = "Exercise angina" -> exang[label]
          [] field = "Slope of ST" -> slope[label]
          [] field = "Thallium" -> thal[label]

\* C1: for every form the widgets can hold, encoding succeeds and yields one
\* row under exactly the 13 documented field names, in the documented order,
\* each categorical label replaced by its documented code and each numeric
\* input passed through unchanged.
C1_EncoderProducesDocumentedRecord ==
    /\ ~crashed
    /\ input_df # None =>
         /\ input_df.cols = DocumentedFields
         /\ Len(input_df.rows) = 1
         /\ input_df.rows[1] =
              <<PyInt(form.age),
                PyInt(DocumentedCode("Sex", form.sex_disp)),
                PyInt(DocumentedCode("Chest pain type", form.cp_disp)),
                PyInt(form.trestbps),
                PyInt(form.chol),
                PyInt(DocumentedCode("FBS over 120", form.fbs_disp)),
                PyInt(DocumentedCode("EKG results", form.ecg_disp)),
                PyInt(form.thalach),
                PyInt(DocumentedCode("Exercise angina", form.exang_disp)),
                PyInt(form.oldpeak),
                PyInt(DocumentedCode("Slope of ST", form.slope_disp)),
                PyInt(form.ca),
                PyInt(DocumentedCode("Thallium", form.thal_disp))>>

\* A form far from the defaults has been encoded.
C1_Witness ==
    /\ input_df # None
    /\ form.sex_disp = "Female"
    /\ form.cp_disp = "Asymptomatic (4)"
    /\ form.fbs_disp = "True (1)"
    /\ form.thal_disp = "Reversible Defect (7)"
    /\ form.oldpeak = OldpeakMax

\* C2: the resolver returns the first existing candidate in the order
\* models/<file>, src/<file>, <file>, ../models/<file>, and None exactly when
\* none of the four exists.
C2_ResolverFirstExisting ==
    probe.done =>
        LET f == probe.filename
            c == << <<"models", f>>, <<"src", f>>, <<f>>, <<"..", "models", f>> >>
            hits == {k \in 1..4 : c[k] \in probe.exists}
        IN  IF hits = {} THEN probe.result = None
            ELSE \E k \in hits :
                   /\ \A j \in hits : k <= j
                   /\ probe.result = [path |-> c[k]]

\* Several candidates exist, the first in priority does not, and the
\* resolver has answered with the second.
C2_Witness ==
    /\ probe.done
    /\ probe.result = [path |-> <<"src", probe.filename>>]
    /\ <<probe.filename>> \in probe.exists
    /\ <<"..", "models", probe.filename>> \in probe.exists

C2_WitnessNone ==
    /\ probe.done
    /\ probe.result = None
    /\ probe.exists # {}

\* C3: the cache is empty at process start, is filled by the first successful
\* load, and from then on every run gets the identical instance from it
\* without resolving the path or deserializing again.
C3_CacheNeverInvalidated ==
    /\ cache = EmptyCache
    /\ [][/\ (cache.filled /\ cache.value # None) =>
                /\ cache' = cache
                /\ loads' = loads
                /\ resolves' = resolves
                /\ model' = cache.value
          /\ (~cache.filled /\ loads' = loads + 1 /\ model' # None) =>
                /\ cache'.filled
                /\ cache'.value = model']_vars

\* A run after the one that loaded the model, with the artifact since
\* deleted from every candidate path.
C3_Witness ==
    /\ cache.filled
    /\ cache.value # None
    /\ model = cache.value
    /\ input_df # None
    /\ fs = {}
    /\ loads = 1
    /\ resolves = 1

\* C4 as claimed: after a successful batch analysis the dataset has the rows
\* of the upload, every uploaded column with its values, plus a Prediction
\* column and, iff the model has predict_proba, a Probability column.
C4_BatchAugmentsDataset ==
    HasElement(ui, "success: Analysis Completed!") =>
        LET up == uploaded_file.table
        IN  /\ Len(df.rows) = Len(up.rows)
            /\ \A k \in 1..Len(up.cols) :
                 /\ up.cols[k] \in ColumnSet(df)
                 /\ Column(df, up.cols[k]) = Column(up, up.cols[k])
            /\ "Prediction" \in ColumnSet(df)
            /\ ("Probability" \in ColumnSet(df)) <=> model.hasProba
            /\ Len(df.cols) = Len(up.cols) + (IF model.hasProba THEN 2 ELSE 1)

\* C5 as claimed: when an inference call of a batch analysis raises, the
\* error and the hint are shown, no download is offered, the dataset has
\* gained neither a Prediction nor a Probability column, and the uploader
\* is still there.
C5_BatchFailureLeavesNoPartialResult ==
    HasElement(ui, "error: Error") =>
        /\ HasElement(ui, "info: Ensure CSV columns match")
        /\ ~HasElement(ui, "download_button")
        /\ download = None
        /\ ColumnSet(df) \cap {"Prediction", "Probability"}
             \subseteq ColumnSet(uploaded_file.table)
        /\ HasElement(ui, "file_uploader")
        /\ ~crashed

ClassOne(prediction) == PyEq(prediction, PyInt(1))

ClassOneOrPresence(prediction) ==
    prediction \in {PyInt(1), PyStr("Presence")}

\* The risk score of a rendered manual prediction is entry 1 of the vector
\* predict_proba returned, or 0 when the model has no predict_proba (which
\* is then not called).
RiskScoreIsPositiveClassEntry ==
    /\ ElementOf(ui, "metric: Risk Score").num =
         IF model.hasProba THEN FormatRisk(calls[2].v[1][2]) ELSE 0
    /\ Len(calls) = IF model.hasProba THEN 2 ELSE 1

\* C6 as claimed: class 1 gives the "detected" verdict and every other
\* predicted value the "normal" verdict; the risk score is entry 1 of
\* predict_proba, or 0 without predict_proba.
C6_OnlyClassOneIsPositive ==
    HasElement(ui, "metric: Risk Score") =>
        /\ ClassOne(calls[1].v[1])
             <=> HasElement(ui, "error: HEART DISEASE DETECTED")
        /\ ~ClassOne(calls[1].v[1]) <=> HasElement(ui, "success: NORMAL")
        /\ RiskScoreIsPositiveClassEntry

\* C6 as amended: class 1 and the label "Presence" give the "detected"
\* verdict, every other predicted value the "normal" verdict; the risk score
\* is entry 1 of predict_proba, or 0 without predict_proba.
C6_ClassOneOrPresenceIsPositive ==
    HasElement(ui, "metric: Risk Score") =>
        /\ ClassOneOrPresence(calls[1].v[1])
             <=> HasElement(ui, "error: HEART DISEASE DETECTED")
        /\ ~ClassOneOrPresence(calls[1].v[1]) <=> HasElement(ui, "success: NORMAL")
        /\ RiskScoreIsPositiveClassEntry

\* The predictor answered "Presence" with a probability of 0.7512.
C6_Witness ==
    /\ HasElement(ui, "error: HEART DISEASE DETECTED")
    /\ calls[1].v[1] = PyStr("Presence")
    /\ model.hasProba
    /\ ElementOf(ui, "metric: Risk Score").num = 751

\* C7: a run in which load_model yields no model shows the error and does
\* nothing else: no form, no uploader, no encoding, no inference; and the
\* run in which deserialization fails reports the cause, without an
\* exception escaping.
C7_NoModelDisablesInteraction ==
    /\ [](model = None /\ ui # <<>> =>
            /\ HasElement(ui, "error: Model file not found!")
            /\ ~HasElement(ui, "form")
            /\ ~HasElement(ui, "file_uploader")
            /\ ~HasElement(ui, "button: Start Batch Analysis")
            /\ input_df = None
            /\ calls = <<>>
            /\ df = None
            /\ download = None
            /\ ~crashed)
    /\ [][loads' = loads + 1 /\ model' = None =>
            /\ HasElement(ui', "error: Error loading model")
            /\ ElementOf(ui', "error: Error loading model").cause = "UnpicklingError"
            /\ ~crashed']_vars

\* The artifact is corrupt: the cached None is served again after the file
\* was removed.
C7_Witness ==
    /\ model = None
    /\ cache.filled
    /\ loads = 1
    /\ HasElement(ui, "error: Error loading model")
    /\ fs = {}

C7_WitnessNotFound ==
    /\ model = None
    /\ cache.filled
    /\ loads = 0
    /\ fs # {}
    /\ HasElement(ui, "error: Model file not found!")

\* A submission that the predictor answers.
RetrySucceeds == SubmitForm /\ HasElement(ui', "metric: Risk Score")

\* C8: when predict or predict_proba raises in a manual prediction, the
\* error is shown, neither risk score nor verdict is rendered, the cached
\* model is the one it was, the form is there again and a further
\* submission can be predicted; and no load, read or prediction error lets
\* an exception escape.
C8_PredictionErrorIsRecoverable ==
    /\ [](HasElement(ui, "error: Prediction Error") =>
            /\ ~HasElement(ui, "metric: Risk Score")
            /\ ~HasElement(ui, "error: HEART DISEASE DETECTED")
            /\ ~HasElement(ui, "success: NORMAL")
            /\ HasElement(ui, "form")
            /\ model # None
            /\ cache.value = model
            /\ ENABLED RetrySucceeds)
    /\ [](~crashed)
    /\ [][HasElement(ui', "error: Prediction Error") => cache' = cache]_vars

\* predict returned and predict_proba then raised.
C8_Witness ==
    /\ HasElement(ui, "error: Prediction Error")
    /\ Len(calls) = 2
    /\ calls[1].exc = ""
    /\ calls[2].exc = "ValueError"

\* C9 as claimed: every categorical mapping maps each declared label to its
\* code and fails on every other label.
C9_AllMappingsFailOnForeignLabel ==
    probe.done =>
        IF probe.label \in Declared(probe.field)
        THEN probe.exc = "" /\ probe.v = DocumentedCode(probe.field, probe.label)
        ELSE probe.exc = "KeyError"

ConditionalFields == {"Sex", "FBS over 120", "Exercise angina"}

\* C9 as amended: every mapping maps each declared label to its code.  The
\* mappings of Chest pain type, EKG results, Slope of ST and Thallium fail
\* (KeyError) on every other label; those of Sex, FBS over 120 and Exercise
\* angina never fail: they map every other label to 0, except that FBS maps
\* a label containing "True" and Exercise angina a label containing "Yes"
\* to 1.
C9_DictMappingsFailOnForeignLabel ==
    probe.done =>
        IF probe.label \in Declared(probe.field)
        THEN probe.exc = "" /\ probe.v = DocumentedCode(probe.field, probe.label)
        ELSE IF probe.field \in ConditionalFields
        THEN /\ probe.exc = ""
             /\ probe.v =
                  IF \/ probe.field = "FBS over 120" /\ StrIn("True", probe.label)
                     \/ probe.field = "Exercise angina" /\ StrIn("Yes", probe.label)
                  THEN 1 ELSE 0
        ELSE probe.exc = "KeyError"

\* A foreign label has failed in a dictionary mapping.
C9_Witness ==
    /\ probe.done
    /\ probe.field = "Thallium"
    /\ probe.label = "Normal (0)"
    /\ probe.exc = "KeyError"

\* A foreign label has been given a code by a conditional mapping.
C9_WitnessFallback ==
    /\ probe.done
    /\ probe.field = "FBS over 120"
    /\ probe.label = "Not True"
    /\ probe.v = 1

\* C10 as claimed: in a batch analysis predict_proba is given exactly the
\* columns of the uploaded dataset, the ones predict was given.
C10_ProbaGetsUploadedColumns ==
    (input_df = None /\ Len(calls) = 2) =>
        /\ calls[2].fn = "predict_proba"
        /\ calls[2].cols = calls[1].cols
        /\ calls[2].cols = uploaded_file.table.cols

====
